---- MODULE Spec2Model ----
(***************************************************************************)
(* Model of the publish pipeline of src/app.py: handle_request accepts a   *)
(* task request, the deferred process_task asks the generation service for *)
(* markup, create_or_update_repo stages it in the task's directory,        *)
(* commits, force-pushes, activates static hosting and polls the site, and *)
(* post_to_evaluation reports to the optional callback URL.                *)
(*                                                                         *)
(* Every run of process_task is a process of its own (the background task  *)
(* of one request); runs interleave at each call that touches the staging  *)
(* directory, the local repository or an external service.  Nothing has    *)
(* been published when the service starts: no staging directory and no     *)
(* remote repository exist.  A status of 0 stands for a call that raised    *)
(* without a response.                                                     *)
(***************************************************************************)
EXTENDS Integers, Sequences, FiniteSets, TLC

(***************************************************************************)
(* Bounds of the model.                                                    *)
(***************************************************************************)
NumReqs == 2      \* requests received by the endpoint
NumTasks == 1     \* task identifiers the requests name
MaxRound == 1     \* round numbers 1..MaxRound
MaxTextLen == 6   \* tokens of a generation response, where any text is tried

(***************************************************************************)
(* Process configuration (src/app.py:15-18) and program constants.         *)
(***************************************************************************)
GITHUB_USERNAME == "acct"
SECRET_KEY == "s3cret"
MaxProbes == 20        \* range(20) of the liveness loop
PreviewLen == 500      \* html_code[:500] of the README

Reqs == 1 .. NumReqs
Rounds == 1 .. MaxRound
TaskNames == << "demo-42", "demo-43", "demo-44" >>
Tasks == {TaskNames[i] : i \in 1 .. NumTasks}
Secrets == {SECRET_KEY, "wrong"}
NoUrl == "<None>"
EvalUrls == {NoUrl, "http://eval.example/notify"}

(***************************************************************************)
(* Text is a sequence of tokens: "F" is the fence marker (three            *)
(* backticks), "n" a newline, "s" a blank, anything else a content token.  *)
(***************************************************************************)
Fence == "F"
Newline == "n"
Whitespace == {"n", "s"}

\* the generation service's answer to the brief of request r: fenced for
\* some requests, bare for others, and of different markup for each
Responses ==
  << << "F", "n", "a", "n", "F" >>,
     << "b" >>,
     << "F", "s", "n", "c", "n", "F", "n" >> >>
ResponseTo(r) == Responses[((r - 1) % Len(Responses)) + 1]

\* every text of at most MaxTextLen tokens
Alphabet == {"F", "n", "s", "a"}
Texts == UNION {[1 .. k -> Alphabet] : k \in 0 .. MaxTextLen}

\* index (0 if none) of the first / last newline of a text
FirstNewline(s) ==
  IF \E i \in 1 .. Len(s) : s[i] = Newline
  THEN CHOOSE i \in 1 .. Len(s) :
         s[i] = Newline /\ \A j \in 1 .. (i - 1) : s[j] # Newline
  ELSE 0

LastNewline(s) ==
  IF \E i \in 1 .. Len(s) : s[i] = Newline
  THEN CHOOSE i \in 1 .. Len(s) :
         s[i] = Newline /\ \A j \in (i + 1) .. Len(s) : s[j] # Newline
  ELSE 0

\* "\n".join(code.split("\n")[1:])
DropFirstLine(s) ==
  IF FirstNewline(s) = 0 THEN << >>
  ELSE SubSeq(s, FirstNewline(s) + 1, Len(s))

\* "\n".join(code.split("\n")[:-1])
DropLastLine(s) ==
  IF LastNewline(s) = 0 THEN << >>
  ELSE SubSeq(s, 1, LastNewline(s) - 1)

\* str.strip()
RECURSIVE LStrip(_)
LStrip(s) ==
  IF s # << >> /\ Head(s) \in Whitespace THEN LStrip(Tail(s)) ELSE s

RECURSIVE RStrip(_)
RStrip(s) ==
  IF s # << >> /\ s[Len(s)] \in Whitespace
  THEN RStrip(SubSeq(s, 1, Len(s) - 1)) ELSE s

Strip(s) == RStrip(LStrip(s))

StartsWithFence(s) == s # << >> /\ s[1] = Fence
EndsWithFence(s) == s # << >> /\ s[Len(s)] = Fence

\* the post-processing of call_llm
StripFences(text) ==
  LET c1 == IF StartsWithFence(text) THEN DropFirstLine(text) ELSE text
      c2 == IF EndsWithFence(c1) THEN DropLastLine(c1) ELSE c1
  IN  Strip(c2)

Min(a, b) == IF a < b THEN a ELSE b

\* html_code[:500]
Preview(html) == SubSeq(html, 1, Min(Len(html), PreviewLen))

(***************************************************************************)
(* Attachments: a name and a source locator, of which the scheme decides;   *)
(* encoded is what follows the comma of a data locator.                    *)
(***************************************************************************)
DataAtt == [name |-> "logo.png", scheme |-> "data", encoded |-> "aGk="]
HttpAtt == [name |-> "data.csv", scheme |-> "https", encoded |-> ""]

\* base64.b64decode, on the payloads of the attachments above
b64decode(data) == IF data = "aGk=" THEN << "h", "i" >> ELSE << >>
AttachmentLists == { << >>, << DataAtt >>, << HttpAtt >> }

\* TaskRequest
TaskRequest(secret, email, task, nonce, round, url, atts) ==
  [secret |-> secret, email |-> email, task |-> task, nonce |-> nonce,
   round |-> round, evaluation_url |-> url, attachments |-> atts]

\* every request has its own contact email and nonce
EmailOf(r) == << "user", ToString(r), "@example.org" >>
NonceOf(r) == << "nonce-", ToString(r) >>

NoReq == TaskRequest("", << >>, "", << >>, 0, NoUrl, << >>)

(***************************************************************************)
(* Files of a directory or of a tree: a function from the names present to *)
(* their contents.                                                         *)
(***************************************************************************)
NoFiles == [n \in {} |-> << >>]
Put(f, name, content) ==
  [n \in (DOMAIN f) \cup {name} |-> IF n = name THEN content ELSE f[n]]

\* datetime.now().year, as a run may read it
Years == {2025, 2026}

LicenseText(year) ==
  << "MIT License", "Copyright (c) ", ToString(year), GITHUB_USERNAME >>
ReadmeText(task_id, round_number, html_code) ==
  << "# ", task_id, "Generated for round ", ToString(round_number), "Brief:" >>
    \o Preview(html_code) \o << "...", "MIT" >>

repo_url(task_id) == << "https://github.com/", GITHUB_USERNAME, "/", task_id >>
live_url(task_id) == << "https://", GITHUB_USERNAME, ".github.io/", task_id, "/" >>

(***************************************************************************)
(* State.  Each request r has the position and the local variables of its  *)
(* handler and of its background task; the staging directory, the local    *)
(* repository and the remote repository belong to the task identifier and  *)
(* are shared by every run that names it.                                  *)
(***************************************************************************)
VARIABLES
  req,           \* req[r]: the payload of request r (NoReq before it arrives)
  pc,            \* pc[r]: where request r and its background task stand
  ack,           \* ack[r]: the response handle_request returned
  response,      \* response[r]: the text the generation service answered run r
  html,          \* html[r]: html_code of run r
  resp,          \* resp[r]: status of the response run r received last
                 \*          (0: the call raised, or no call yet)
  checked,       \* checked[r]: status the existence check of run r returned
                 \*             (0: it raised, or no check yet)
  attempt,       \* attempt[r]: probes issued by the liveness loop of run r
  exhausted,     \* exhausted[r]: the loop of run r used up its attempts
                 \*               without a success response
  sha,           \* sha[r]: commit_sha of run r (0 before it is read)
  posted,        \* posted[r]: the payloads run r posted to its callback URL,
                 \*            each with the status of its delivery
  calls,         \* calls[r]: how often run r has made each kind of call
                 \*           (staged: makedirs and the files every run opens
                 \*           to write: attachments, index.html, README.md)
  doneBefore,    \* doneBefore[r]: the runs that had ended when run r started
  files,         \* files[t]: the staging directory of task t
  hasGit,        \* hasGit[t]: the staging directory holds a .git
  gitIndex,      \* gitIndex[t]: the tree staged in the local repository
  commits,       \* commits[t]: the commits of the local branch, oldest first
  remoteExists,  \* remoteExists[t]: the hosting provider has the repository
  remoteMain,    \* remoteMain[t]: the commit of the remote's main (0: none)
  pushes         \* pushes[t]: force-pushes that reached the remote of t

vars == << req, pc, ack, response, html, resp, checked, attempt, exhausted, sha,
           posted, calls, doneBefore,
           files, hasGit, gitIndex, commits, remoteExists, remoteMain, pushes >>

local == << files, hasGit, gitIndex, commits >>
remote == << remoteExists, remoteMain, pushes >>

NoAck == [status |-> "none"]
NoCalls ==
  [generate |-> 0, generate_failed |-> 0, repo_get |-> 0, repo_create |-> 0,
   staged |-> 0, commit |-> 0, push |-> 0, pages_post |-> 0, callback |-> 0]

Init ==
  /\ req = [r \in Reqs |-> NoReq]
  /\ pc = [r \in Reqs |-> "idle"]
  /\ ack = [r \in Reqs |-> NoAck]
  /\ response = [r \in Reqs |-> << >>]
  /\ html = [r \in Reqs |-> << >>]
  /\ resp = [r \in Reqs |-> 0]
  /\ checked = [r \in Reqs |-> 0]
  /\ attempt = [r \in Reqs |-> 0]
  /\ exhausted = [r \in Reqs |-> FALSE]
  /\ sha = [r \in Reqs |-> 0]
  /\ posted = [r \in Reqs |-> << >>]
  /\ calls = [r \in Reqs |-> NoCalls]
  /\ doneBefore = [r \in Reqs |-> {}]
  /\ files = [t \in Tasks |-> NoFiles]
  /\ hasGit = [t \in Tasks |-> FALSE]
  /\ gitIndex = [t \in Tasks |-> NoFiles]
  /\ commits = [t \in Tasks |-> << >>]
  /\ remoteExists = [t \in Tasks |-> FALSE]
  /\ remoteMain = [t \in Tasks |-> 0]
  /\ pushes = [t \in Tasks |-> 0]

Ended(r) == pc[r] \in {"done", "failed"}

\* run r moves on to position next
Goto(r, next) == pc' = [pc EXCEPT ![r] = next]

\* run r has received a response of this status (0: the call raised)
Got(r, status) == resp' = [resp EXCEPT ![r] = status]

\* raise_for_status, and a call that raised by itself
Raises(status) == status = 0 \/ status >= 400

(***************************************************************************)
(* handle_request: the endpoint.                                           *)
(***************************************************************************)
\* the secret is not compared
Authorized_NoCheck(payload) == TRUE

Authorized(payload) == payload.secret = SECRET_KEY

\* the response carries the result of the pipeline
Acknowledgment_WithResult(payload) ==
  IF Authorized(payload)
  THEN [status |-> "ok", repo_url |-> repo_url(payload.task),
        pages_url |-> live_url(payload.task)]
  ELSE [status |-> "error", message |-> "Invalid secret"]

\* lines 192 and 198: the response to the caller
Acknowledgment(payload) ==
  IF Authorized(payload) THEN [status |-> "ok"]
  ELSE [status |-> "error", message |-> "Invalid secret"]

handle_request(r) ==
  /\ pc[r] = "idle"
  /\ \E secret \in Secrets, task \in Tasks, round \in Rounds,
        url \in EvalUrls, atts \in AttachmentLists :
       LET payload == TaskRequest(secret, EmailOf(r), task, NonceOf(r),
                                  round, url, atts)
       IN  /\ req' = [req EXCEPT ![r] = payload]
           /\ ack' = [ack EXCEPT ![r] = Acknowledgment(payload)]
           \* line 195: add_task, on an authorized request only
           /\ Goto(r, IF Authorized(payload) THEN "queued" ELSE "rejected")
  /\ UNCHANGED << response, html, resp, checked, attempt, exhausted, sha, posted,
                  calls, doneBefore, local, remote >>

(***************************************************************************)
(* process_task: the background task starts after the response is sent.    *)
(***************************************************************************)
process_task(r) ==
  /\ pc[r] = "queued"
  /\ Goto(r, "llm")
  /\ doneBefore' = [doneBefore EXCEPT ![r] = {q \in Reqs : Ended(q)}]
  /\ UNCHANGED << req, ack, response, html, resp, checked, attempt, exhausted, sha,
                  posted, calls, local, remote >>

\* a failure of the generation call is swallowed
AfterGenerate_Swallow(ok) == "check"

\* line 174: the exception of a failed generation call ends process_task
AfterGenerate(ok) == IF ok THEN "check" ELSE "failed"

\* lines 45-54 for run r: one generation call, answered by one of texts or
\* failing
Generate(r, texts) ==
  /\ pc[r] = "llm"
  /\ \/ \E text \in texts :
          /\ response' = [response EXCEPT ![r] = text]
          /\ html' = [html EXCEPT ![r] = StripFences(text)]
          /\ calls' = [calls EXCEPT ![r].generate = @ + 1]
          /\ Goto(r, AfterGenerate(TRUE))
     \/ /\ calls' = [calls EXCEPT ![r].generate = @ + 1,
                                  ![r].generate_failed = @ + 1]
        /\ Goto(r, AfterGenerate(FALSE))
        /\ UNCHANGED << response, html >>
  /\ UNCHANGED << req, ack, resp, checked, attempt, exhausted, sha,
                  posted, doneBefore, local, remote >>

\* call_llm: one generation call; a failure of the service raises
call_llm(r) == Generate(r, {ResponseTo(r)})

(***************************************************************************)
(* ensure_repo_exists: the existence check, and the creation call that a   *)
(* not-found answer leads to.                                              *)
(***************************************************************************)
CheckStatuses(t) == (IF remoteExists[t] THEN {200} ELSE {404}) \cup {403, 0}
CreateStatuses(t) == (IF remoteExists[t] THEN {422} ELSE {201}) \cup {0}

\* any answer but success leads to a creation call
CheckOutcome_CreateUnlessOk(status) ==
  IF status = 200 THEN "attach" ELSE "create"

\* no elif: an error status other than not-found is let through
CheckOutcome_NoElif(status) ==
  IF status = 404 THEN "create" ELSE "attach"

\* what line 61 and line 67 make of the status of the existence check
CheckOutcome(status) ==
  IF status = 404 THEN "create"
  ELSE IF status >= 400 THEN "failed"
  ELSE "attach"

ensure_repo_exists(r) ==
  /\ pc[r] = "check"
  /\ calls' = [calls EXCEPT ![r].repo_get = @ + 1]
  /\ \E status \in CheckStatuses(req[r].task) :
       /\ Got(r, status)
       /\ checked' = [checked EXCEPT ![r] = status]
       /\ Goto(r, IF status = 0 THEN "failed" ELSE CheckOutcome(status))
  /\ UNCHANGED << req, ack, response, html, attempt, exhausted, sha, posted,
                  doneBefore, local, remote >>

\* lines 63-66: the creation call
create_repo(r) ==
  /\ pc[r] = "create"
  /\ calls' = [calls EXCEPT ![r].repo_create = @ + 1]
  /\ LET t == req[r].task IN
     \E status \in CreateStatuses(t) :
       /\ Got(r, status)
       /\ Goto(r, IF Raises(status) THEN "failed" ELSE "attach")
       /\ remoteExists' = [remoteExists EXCEPT ![t] = @ \/ ~Raises(status)]
  /\ UNCHANGED << req, ack, response, html, checked, attempt, exhausted, sha,
                  posted, doneBefore, local, remoteMain, pushes >>

(***************************************************************************)
(* save_attachments, called when the request has attachments.  A locator   *)
(* of a data scheme has its file opened for writing, which creates it      *)
(* empty, and the decoding then raises NameError: base64 is imported       *)
(* inside create_or_update_repo only (line 87), and is no name of          *)
(* save_attachments.  Any other locator is skipped.                        *)
(***************************************************************************)
IsDataScheme(att) == att.scheme = "data"

RECURSIVE SaveAttachments(_, _)
SaveAttachments(dir, atts) ==
  IF atts = << >> THEN [dir |-> dir, raised |-> FALSE, opened |-> 0]
  ELSE IF IsDataScheme(Head(atts))
       THEN [dir |-> Put(dir, Head(atts).name, << >>), raised |-> TRUE,
             opened |-> 1]
       ELSE SaveAttachments(dir, Tail(atts))

\* lines 82-88: makedirs and the attachments
save_attachments(r) ==
  /\ pc[r] = "attach"
  /\ LET t == req[r].task
         res == SaveAttachments(files[t], req[r].attachments)
     IN  /\ files' = [files EXCEPT ![t] = res.dir]
         /\ calls' = [calls EXCEPT ![r].staged = @ + 1 + res.opened]
         /\ Goto(r, IF res.raised THEN "failed" ELSE "index")
  /\ UNCHANGED << req, ack, response, html, resp, checked, attempt, exhausted, sha,
                  posted, doneBefore, hasGit, gitIndex, commits, remote >>

(***************************************************************************)
(* The site builder: index.html, LICENSE when absent, README.md.           *)
(***************************************************************************)
\* index.html is written like LICENSE, when absent only
WriteIndex_WhenAbsent(dir, html_code) ==
  IF "index.html" \in DOMAIN dir THEN dir ELSE Put(dir, "index.html", html_code)

\* lines 91-92: open(..., "w") and write
WriteIndex(dir, html_code) == Put(dir, "index.html", html_code)

write_index(r) ==
  /\ pc[r] = "index"
  /\ files' = [files EXCEPT ![req[r].task] = WriteIndex(@, html[r])]
  /\ calls' = [calls EXCEPT ![r].staged = @ + 1]
  /\ Goto(r, "license")
  /\ UNCHANGED << req, ack, response, html, resp, checked, attempt, exhausted, sha,
                  posted, doneBefore, hasGit, gitIndex, commits, remote >>

\* LICENSE is written by every run, like index.html
WriteLicense_Always(dir, year) == Put(dir, "LICENSE", LicenseText(year))

\* lines 95-119: written when the path does not exist
WriteLicense(dir, year) ==
  IF "LICENSE" \in DOMAIN dir THEN dir
  ELSE Put(dir, "LICENSE", LicenseText(year))

write_license(r) ==
  /\ pc[r] = "license"
  /\ \E year \in Years :
       files' = [files EXCEPT ![req[r].task] = WriteLicense(@, year)]
  /\ Goto(r, "readme")
  /\ UNCHANGED << req, ack, response, html, resp, checked, attempt, exhausted, sha,
                  posted, calls, doneBefore, hasGit, gitIndex, commits,
                  remote >>

write_readme(r) ==
  /\ pc[r] = "readme"
  /\ files' = [files EXCEPT ![req[r].task] =
                 Put(@, "README.md",
                     ReadmeText(req[r].task, req[r].round, html[r]))]
  /\ calls' = [calls EXCEPT ![r].staged = @ + 1]
  /\ Goto(r, "add")
  /\ UNCHANGED << req, ack, response, html, resp, checked, attempt, exhausted, sha,
                  posted, doneBefore, hasGit, gitIndex, commits, remote >>

(***************************************************************************)
(* Git operations on the local repository of the staging directory.        *)
(***************************************************************************)
\* the files the site builder writes
SiteFiles == {"index.html", "LICENSE", "README.md"}

\* git add of the files of the site only
AddAll_SiteOnly(index, dir) ==
  [n \in (DOMAIN dir) \cap SiteFiles |-> dir[n]]

\* git add -A: the staged tree becomes the working tree, with every file of
\* the directory, and without the staged files the directory has no more
AddAll(index, dir) ==
  [n \in DOMAIN dir |-> IF n \in DOMAIN index /\ index[n] = dir[n]
                        THEN index[n] ELSE dir[n]]

\* lines 126-131: Repo.init or Repo, then add -A
git_add(r) ==
  /\ pc[r] = "add"
  /\ LET t == req[r].task IN
       /\ hasGit' = [hasGit EXCEPT ![t] = TRUE]
       /\ gitIndex' = [gitIndex EXCEPT ![t] = AddAll(@, files[t])]
  /\ Goto(r, "commit")
  /\ UNCHANGED << req, ack, response, html, resp, checked, attempt, exhausted, sha,
                  posted, calls, doneBefore, files, commits, remote >>

Commit(tree, round_number, r) ==
  [tree |-> tree, message |-> << "Round ", ToString(round_number), " update" >>,
   by |-> r]

\* lines 132-133: the commit of the staged tree, and branch -M main
git_commit(r) ==
  /\ pc[r] = "commit"
  /\ LET t == req[r].task IN
       commits' = [commits EXCEPT ![t] =
                     Append(@, Commit(gitIndex[t], req[r].round, r))]
  /\ calls' = [calls EXCEPT ![r].commit = @ + 1]
  /\ Goto(r, "push")
  /\ UNCHANGED << req, ack, response, html, resp, checked, attempt, exhausted, sha,
                  posted, doneBefore, files, hasGit, gitIndex, remote >>

\* HEAD of the local branch: the identifier of its latest commit
HeadCommit(t) == Len(commits[t])

\* a push without force, which leaves a main the remote already has
ForcePush_KeepRemote(t) ==
  IF remoteMain[t] = 0 THEN HeadCommit(t) ELSE remoteMain[t]

\* push("main", force=True): the remote's main becomes the local main
ForcePush(t) == HeadCommit(t)

\* lines 135-141: the remote's URL and the force-push of main, which
\* reaches the remote or raises
git_push(r) ==
  /\ pc[r] = "push"
  /\ calls' = [calls EXCEPT ![r].push = @ + 1]
  /\ LET t == req[r].task IN
     \/ /\ remoteMain' = [remoteMain EXCEPT ![t] = ForcePush(t)]
        /\ pushes' = [pushes EXCEPT ![t] = @ + 1]
        /\ Goto(r, "pages")
     \/ /\ Goto(r, "failed")
        /\ UNCHANGED << remoteMain, pushes >>
  /\ UNCHANGED << req, ack, response, html, resp, checked, attempt, exhausted, sha,
                  posted, doneBefore, local, remoteExists >>

(***************************************************************************)
(* Static hosting activation, lines 143-150.                               *)
(***************************************************************************)
PagesPostStatuses == {201, 409, 500, 0}
PagesPutStatuses == {204, 422, 0}

\* line 148: the condition under which the update request is issued
NeedsPut(status) == status \notin {201, 204}

pages_post(r) ==
  /\ pc[r] = "pages"
  /\ calls' = [calls EXCEPT ![r].pages_post = @ + 1]
  /\ \E status \in PagesPostStatuses :
       /\ Got(r, status)
       /\ Goto(r, IF status = 0 THEN "failed"
                  ELSE IF NeedsPut(status) THEN "put" ELSE "poll")
  /\ UNCHANGED << req, ack, response, html, checked, attempt, exhausted, sha,
                  posted, doneBefore, local, remote >>

pages_put(r) ==
  /\ pc[r] = "put"
  /\ \E status \in PagesPutStatuses :
       /\ Got(r, status)
       /\ Goto(r, IF Raises(status) THEN "failed" ELSE "poll")
  /\ UNCHANGED << req, ack, response, html, checked, attempt, exhausted, sha,
                  posted, calls, doneBefore, local, remote >>

(***************************************************************************)
(* The liveness loop, lines 152-158.                                       *)
(***************************************************************************)
ProbeStatuses == {200, 404, 0}

\* the loop has no break
AfterProbe_NoBreak(n, status) ==
  IF n >= MaxProbes THEN "head" ELSE "poll"

\* using up the attempts raises
AfterProbe_RaiseWhenUsedUp(n, status) ==
  IF status = 200 THEN "head"
  ELSE IF n >= MaxProbes THEN "failed" ELSE "poll"

\* after the n-th probe: leave the loop on success or when range(20) is
\* used up, else sleep and probe again
AfterProbe(n, status) ==
  IF status = 200 \/ n >= MaxProbes THEN "head" ELSE "poll"

probe(r) ==
  /\ pc[r] = "poll"
  /\ \E status \in ProbeStatuses :
       LET next == IF status = 0 THEN "failed"
                   ELSE AfterProbe(attempt[r] + 1, status)
       IN  /\ Got(r, status)
           /\ Goto(r, next)
           \* the loop variable lives as long as the loop
           /\ attempt' = [attempt EXCEPT ![r] =
                            IF next = "poll" THEN @ + 1 ELSE 0]
           /\ exhausted' = [exhausted EXCEPT ![r] =
                              status \notin {200, 0}
                                /\ attempt[r] + 1 >= MaxProbes]
  /\ UNCHANGED << req, ack, response, html, checked, sha, posted, calls,
                  doneBefore, local, remote >>

\* line 160: commit_sha = repo.head.commit.hexsha
read_head(r) ==
  /\ pc[r] = "head"
  /\ sha' = [sha EXCEPT ![r] = HeadCommit(req[r].task)]
  /\ Goto(r, "notify")
  /\ UNCHANGED << req, ack, response, html, resp, checked, attempt, exhausted,
                  posted, calls, doneBefore, local, remote >>

(***************************************************************************)
(* post_to_evaluation, with the payload process_task builds.               *)
(***************************************************************************)
eval_data(payload, commit_sha) ==
  [email |-> payload.email, task |-> payload.task, round |-> payload.round,
   nonce |-> payload.nonce, repo_url |-> repo_url(payload.task),
   commit_sha |-> commit_sha, pages_url |-> live_url(payload.task)]

\* 200 delivered, 500 a non-success status, 0 the POST raised
CallbackStatuses == {200, 500, 0}

\* the POST is made whether or not a URL was supplied
Supplied_Always(url) == TRUE

\* line 166: if evaluation_url
Supplied(url) == url # NoUrl

\* only an exception is caught, and a non-success status is raised
AfterCallback_RaiseForStatus(status) ==
  IF status >= 400 THEN "failed" ELSE "done"

\* lines 167-170: what becomes of the run after the POST
AfterCallback(status) == "done"

post_to_evaluation(r) ==
  /\ pc[r] = "notify"
  /\ IF Supplied(req[r].evaluation_url)
     THEN \E status \in CallbackStatuses :
            /\ posted' = [posted EXCEPT ![r] =
                 Append(@, [data |-> eval_data(req[r], sha[r]),
                            status |-> status])]
            /\ calls' = [calls EXCEPT ![r].callback = @ + 1]
            /\ Goto(r, AfterCallback(status))
     ELSE /\ Goto(r, "done")
          /\ UNCHANGED << posted, calls >>
  /\ UNCHANGED << req, ack, response, html, resp, checked, attempt, exhausted, sha,
                  doneBefore, local, remote >>

Next ==
  \E r \in Reqs :
    \/ handle_request(r)
    \/ process_task(r)
    \/ call_llm(r)
    \/ ensure_repo_exists(r)
    \/ create_repo(r)
    \/ save_attachments(r)
    \/ write_index(r)
    \/ write_license(r)
    \/ write_readme(r)
    \/ git_add(r)
    \/ git_commit(r)
    \/ git_push(r)
    \/ pages_post(r)
    \/ pages_put(r)
    \/ probe(r)
    \/ read_head(r)
    \/ post_to_evaluation(r)

Spec == Init /\ [][Next]_vars

(***************************************************************************)
(* The content generator alone: the first request, answered by any text.   *)
(***************************************************************************)
call_llm_any(r) == Generate(r, Texts)

FirstReq == {r \in Reqs : \A q \in Reqs : q >= r}

NextFence ==
  \E r \in FirstReq :
    \/ handle_request(r)
    \/ process_task(r)
    \/ call_llm_any(r)

SpecFence == Init /\ [][NextFence]_vars

(***************************************************************************)
(* Properties.                                                             *)
(***************************************************************************)
Arrived(r) == pc[r] # "idle"
Mismatched(r) == Arrived(r) /\ req[r].secret # SECRET_KEY
Matched(r) == Arrived(r) /\ req[r].secret = SECRET_KEY

\* the run has left the push behind with the remote updated
Pushed(r) == calls[r].push = 1 /\ (pc[r] = "pages" \/ calls[r].pages_post >= 1)

\* the index.html of the commit the remote's main points at
RemoteIndex(t) == commits[t][remoteMain[t]].tree["index.html"]

\* C1: a request whose secret differs from the configured one is answered
\* with the error payload, no background task is enqueued for it, and it never
\* causes a generation call, an existence check or creation, a staging write,
\* a commit or push, an activation, a probe or a callback POST.
C1_MismatchedSecretDoesNothing ==
  \A r \in Reqs :
    Mismatched(r) =>
      /\ ack[r] = [status |-> "error", message |-> "Invalid secret"]
      /\ pc[r] = "rejected"
      /\ calls[r] = NoCalls
      /\ attempt[r] = 0
      /\ posted[r] = << >>
      /\ \A t \in Tasks : \A i \in 1 .. Len(commits[t]) : commits[t][i].by # r

C1_Witness ==
  \E r, q \in Reqs : Mismatched(r) /\ q # r /\ pc[q] = "done" /\ Pushed(q)

\* C2: a run makes a creation call if and only if its existence check
\* returned 404; it makes it once, and before its push; a run whose check
\* found the repository makes no creation call and goes on to the staging
\* directory, the commit, the push and the activation.
C2_CreationIffNotFound ==
  \A r \in Reqs :
    /\ calls[r].repo_create <= 1
    /\ calls[r].repo_create = 1 => checked[r] = 404
    /\ checked[r] = 404 => (calls[r].repo_create = 1 \/ pc[r] = "create")
    /\ calls[r].push >= 1 /\ checked[r] = 404 => calls[r].repo_create = 1
    /\ pc[r] = "create" => calls[r].push = 0
    /\ checked[r] = 200 =>
         /\ calls[r].repo_create = 0
         /\ pc[r] = "failed" => calls[r].staged >= 1

C2_Witness ==
  \E r, q \in Reqs :
    /\ checked[r] = 404 /\ calls[r].repo_create = 1 /\ Pushed(r)
    /\ checked[q] = 200 /\ calls[q].repo_create = 0 /\ Pushed(q)
    /\ calls[q].pages_post = 1

\* C3: when two runs for the same task identifier and round both complete,
\* the second having started after the first ended, and no other run has
\* pushed to that repository, the remote has received two force-pushes and
\* its main holds the index.html generated for the second run.
C3_LastWriterWins ==
  \A a, b \in Reqs :
    ( /\ a \in doneBefore[b]
      /\ req[a].task = req[b].task /\ req[a].round = req[b].round
      /\ pc[a] = "done" /\ Pushed(b)
      /\ \A q \in Reqs \ {a, b} :
           req[q].task = req[b].task => calls[q].push = 0 )
    => /\ pushes[req[b].task] = 2
       /\ RemoteIndex(req[b].task) = html[b]

C3_Witness ==
  \E a, b \in Reqs :
    /\ a \in doneBefore[b]
    /\ req[a].task = req[b].task /\ req[a].round = req[b].round
    /\ pc[a] = "done" /\ pc[b] = "done"
    /\ html[a] # html[b]

\* C4: a request whose secret matches is answered {"status": "ok"} and
\* nothing else; no step of its pipeline runs before that answer, and the
\* answer stays what it is whatever the pipeline does afterwards.
C4_AcknowledgedAtOnce ==
  \A r \in Reqs :
    /\ Matched(r) => ack[r] = [status |-> "ok"]
    /\ ~Arrived(r) => ack[r] = NoAck /\ calls[r] = NoCalls
    /\ calls[r] # NoCalls => ack[r] = [status |-> "ok"]

C4_Witness ==
  \E r, q \in Reqs :
    /\ pc[r] = "failed" /\ calls[r].push = 1 /\ calls[r].pages_post = 0
    /\ ack[r] = [status |-> "ok"]
    /\ pc[q] = "done" /\ posted[q] # << >> /\ posted[q][1].status = 0
    /\ ack[q] = [status |-> "ok"]

\* C5: the update (PUT) request of the activation is issued only after the
\* initial (POST) request answered with a conflict, and an initial request
\* that fails with any other status ends the run as failed, with no update
\* request, no probe and no callback.
C5_PutOnlyOnConflict ==
  [][\A r \in Reqs :
       pc[r] = "pages" /\ pc'[r] # "pages" =>
         /\ pc'[r] = "put" => resp'[r] = 409
         /\ resp'[r] \notin {201, 204, 409} => pc'[r] = "failed"]_vars

\* C6: an existence check that answers with an error status other than 404
\* ends the run: no creation call, no staging write, no commit, no push, no
\* activation, no probe and no callback POST is made by that run.
C6_CheckErrorIsFatal ==
  \A r \in Reqs :
    checked[r] >= 400 /\ checked[r] # 404 =>
      /\ pc[r] = "failed"
      /\ calls[r].repo_create = 0 /\ calls[r].staged = 0
      /\ calls[r].commit = 0 /\ calls[r].push = 0
      /\ calls[r].pages_post = 0 /\ calls[r].callback = 0
      /\ attempt[r] = 0 /\ posted[r] = << >>

C6_Witness ==
  \E r, q \in Reqs :
    checked[r] = 403 /\ pc[r] = "failed" /\ q # r /\ Pushed(q)

\* C7: a run whose liveness loop used up its attempts without a success
\* response is not failed by that: it goes on to read the commit identifier
\* and, when a callback URL was supplied, posts the payload with the site URL.
C7_ExhaustionIsNotFatal ==
  \A r \in Reqs :
    exhausted[r] =>
      /\ pc[r] \in {"head", "notify", "done"}
      /\ pc[r] \in {"notify", "done"} => sha[r] >= 1
      /\ pc[r] = "done" /\ req[r].evaluation_url # NoUrl =>
           /\ Len(posted[r]) = 1
           /\ posted[r][1].data.pages_url = live_url(req[r].task)
           /\ posted[r][1].data.commit_sha = sha[r]

C7_Witness ==
  \E r \in Reqs :
    exhausted[r] /\ pc[r] = "done" /\ posted[r] # << >> /\ resp[r] = 404

\* C8: the liveness loop issues at most 20 probes in a run, and issues a
\* further probe only when no probe so far returned 200: the 20th is issued
\* only after 19 probes without success.
C8_BoundedPolling ==
  \A r \in Reqs :
    /\ attempt[r] < MaxProbes
    /\ pc[r] # "poll" => attempt[r] = 0
    /\ pc[r] = "poll" /\ attempt[r] >= 1 => resp[r] # 200
    /\ exhausted[r] => resp[r] # 200

C8_Witness ==
  \E r \in Reqs :
    pc[r] = "poll" /\ attempt[r] = MaxProbes - 1 /\ resp[r] = 404

\* C9: a callback POST that fails (the call raises, or the URL answers with
\* a non-success status) is made once and not again, leaves the run
\* completed, and changes neither the staging directory, the local
\* repository, the remote nor the response given to the caller.
C9_CallbackFailureDiscarded ==
  /\ [](\A r \in Reqs :
          /\ Len(posted[r]) <= 1
          /\ posted[r] # << >> => pc[r] = "done" /\ calls[r].callback = 1)
  /\ [][\A r \in Reqs :
          posted'[r] # posted[r] =>
            UNCHANGED << files, hasGit, gitIndex, commits, remoteExists,
                         remoteMain, pushes, ack, sha >>]_vars

C9_Witness ==
  \E r, q \in Reqs :
    /\ pc[r] = "done" /\ posted[r] # << >> /\ posted[r][1].status = 0
    /\ pc[q] = "done" /\ posted[q] # << >> /\ posted[q][1].status = 500

\* C10: a run that completes makes exactly one callback POST when its
\* request supplied a callback URL and none when it did not; the POST comes
\* after the run's push and activation, and its payload has the request's
\* email, task identifier, round and nonce, a repository URL ending in
\* "/<task>", the commit identifier the run read, and the site URL
\* "https://<account>.github.io/<task>/".
C10_CallbackPayload ==
  \A r \in Reqs :
    /\ pc[r] = "done" =>
         Len(posted[r]) = (IF req[r].evaluation_url = NoUrl THEN 0 ELSE 1)
    /\ posted[r] # << >> =>
         /\ req[r].evaluation_url # NoUrl
         /\ calls[r].push = 1 /\ calls[r].pages_post = 1
         /\ pc[r] = "done"
         /\ LET d == posted[r][1].data
                u == d.repo_url
            IN  /\ d.email = EmailOf(r) /\ d.nonce = NonceOf(r)
                /\ d.task = req[r].task /\ d.round = req[r].round
                /\ u[Len(u) - 1] = "/" /\ u[Len(u)] = req[r].task
                /\ d.commit_sha = sha[r] /\ sha[r] >= 1
                /\ d.pages_url = << "https://", GITHUB_USERNAME, ".github.io/",
                                    req[r].task, "/" >>

C10_Witness ==
  \E r, q \in Reqs :
    /\ pc[r] = "done" /\ req[r].evaluation_url # NoUrl /\ Len(posted[r]) = 1
    /\ pc[q] = "done" /\ req[q].evaluation_url = NoUrl /\ posted[q] = << >>

\* C11: a run makes one generation call and no more; when that call fails
\* the run ends there, with no existence check or creation, no staging write,
\* no commit, no push, no activation and no callback POST.  A callback POST is
\* made only by a run whose generation call, existence check (and creation,
\* if any), push and activation succeeded.
C11_GenerationFailureIsFatal ==
  \A r \in Reqs :
    /\ calls[r].generate <= 1
    /\ calls[r].generate_failed >= 1 =>
         /\ pc[r] = "failed"
         /\ calls[r].repo_get = 0 /\ calls[r].repo_create = 0
         /\ calls[r].staged = 0 /\ calls[r].commit = 0 /\ calls[r].push = 0
         /\ calls[r].pages_post = 0 /\ calls[r].callback = 0
         /\ posted[r] = << >>
    /\ calls[r].callback >= 1 =>
         /\ calls[r].generate = 1 /\ calls[r].generate_failed = 0
         /\ calls[r].repo_get = 1 /\ checked[r] \in {200, 404}
         /\ checked[r] = 404 => calls[r].repo_create = 1
         /\ remoteExists[req[r].task]
         /\ calls[r].commit = 1 /\ calls[r].push = 1
         /\ remoteMain[req[r].task] >= 1
         /\ calls[r].pages_post = 1
         /\ pc[r] = "done"

C11_Witness ==
  \E r, q \in Reqs :
    /\ calls[r].generate_failed = 1 /\ pc[r] = "failed"
    /\ calls[q].callback = 1 /\ pc[q] = "done"

\* a fenced response: the first line opens with the fence marker, the code
\* follows, then a line that is the fence marker, then blanks or newlines at
\* most; neither the rest of the first line nor the code holds a marker
Fenced(text) ==
  /\ StartsWithFence(text)
  /\ \E i, j \in 1 .. Len(text) :
       /\ i = FirstNewline(text)
       /\ j > i + 1
       /\ text[j] = Fence /\ text[j - 1] = Newline
       /\ \A k \in 2 .. (j - 1) : text[k] # Fence
       /\ \E k \in (i + 1) .. (j - 2) : text[k] \notin Whitespace
       /\ \A k \in (j + 1) .. Len(text) : text[k] \in Whitespace

\* no fence marker and no blank at either end
Bare(code) ==
  code # << >> =>
    /\ code[1] # Fence /\ code[Len(code)] # Fence
    /\ code[1] \notin Whitespace /\ code[Len(code)] \notin Whitespace

Generated(r) == calls[r].generate = 1 /\ calls[r].generate_failed = 0

\* C12: for every fenced response, blanks or a newline after the closing
\* fence included, the text call_llm returns neither starts nor ends with a
\* fence marker and has no blank at either end.
C12_FencedOutputBare ==
  \A r \in Reqs :
    Generated(r) /\ Fenced(response[r]) => Bare(html[r])

\* the run has been through makedirs and save_attachments
Materialized(r) == calls[r].staged >= 1

\* the attachments of the request of run r
Attachments(r) == {req[r].attachments[i] : i \in DOMAIN req[r].attachments}

\* the run failed before index.html and README.md were written
FailedBeforeBuilt(r) == pc[r] = "failed" /\ calls[r].staged < 3

\* C13: once the attachments of a request are materialized, each of its
\* data-scheme attachments has a file of its name in the staging directory
\* whose bytes are the decoded payload, and the run does not fail before the
\* site is built.
C13_DataAttachmentRoundTrip ==
  \A r \in Reqs :
    Matched(r) /\ Materialized(r) =>
      \A att \in Attachments(r) :
        IsDataScheme(att) =>
          /\ att.name \in DOMAIN files[req[r].task]
          /\ files[req[r].task][att.name] = b64decode(att.encoded)
          /\ ~FailedBeforeBuilt(r)

\* C14: once the attachments of a request are materialized, each of its
\* attachments whose locator is not of a data scheme has a file of its name in
\* the staging directory.
C14_FetchedAttachmentHasFile ==
  \A r \in Reqs :
    Matched(r) /\ Materialized(r) =>
      \A att \in Attachments(r) :
        ~IsDataScheme(att) => att.name \in DOMAIN files[req[r].task]

\* C15: a run calls the hosting provider (existence check, creation) only
\* after its attachments are materialized and index.html and README.md are
\* written, and a run that failed before the site was built has created no
\* remote repository.
C15_PublisherAfterSiteBuilder ==
  \A r \in Reqs :
    /\ calls[r].repo_get + calls[r].repo_create >= 1 => calls[r].staged >= 3
    /\ FailedBeforeBuilt(r) => calls[r].repo_create = 0

\* the step is one of run r, from position from to position to
Step(r, from, to) == pc[r] = from /\ pc'[r] = to

OpenedAttachment(q) ==
  calls[q].staged >= 2 /\ \E att \in Attachments(q) : IsDataScheme(att)

\* the names of the attachment files run q left in the staging directory
LeftBy(q) ==
  IF OpenedAttachment(q)
  THEN {att.name : att \in {a \in Attachments(q) : IsDataScheme(a)}}
  ELSE {}

\* C17: no step removes a file from a staging directory; the content of a
\* file that is none of the site's changes only by a run that has an
\* attachment of that name; every run stages all the files of the directory
\* and commits what is staged, so that the tree of every commit, and with it
\* what is force-pushed, holds the files left by the runs that had ended
\* before the committing run started.
C17_StagingOnlyGrows ==
  /\ [](\A t \in Tasks : \A i \in DOMAIN commits[t] :
          \A q \in doneBefore[commits[t][i].by] :
            req[q].task = t =>
              \A n \in LeftBy(q) :
                /\ n \in DOMAIN commits[t][i].tree
                /\ commits[t][i].tree[n] = files[t][n])
  /\ [][\A t \in Tasks :
          /\ DOMAIN files[t] \subseteq DOMAIN files'[t]
          /\ \A n \in DOMAIN files[t] \ SiteFiles :
               files'[t][n] # files[t][n] =>
                 \E r \in Reqs :
                   /\ req[r].task = t /\ pc[r] = "attach"
                   /\ \E att \in Attachments(r) : att.name = n
          /\ \A r \in Reqs :
               req[r].task = t =>
                 /\ Step(r, "add", "commit") => gitIndex'[t] = files[t]
                 /\ Step(r, "commit", "push") =>
                      commits'[t][Len(commits'[t])].tree = gitIndex[t]
                 /\ Step(r, "push", "pages") =>
                      remoteMain'[t] = Len(commits[t])]_vars

\* the remote's main is at the commit of a run that started after another
\* run of the task had left an attachment file, which that commit holds
C17_Witness ==
  \E t \in Tasks : \E r, q \in Reqs :
    /\ req[r].task = t /\ req[q].task = t
    /\ q \in doneBefore[r] /\ LeftBy(q) # {}
    /\ Pushed(r)
    /\ remoteMain[t] # 0
    /\ commits[t][remoteMain[t]].by = r
    /\ LeftBy(q) \subseteq DOMAIN commits[t][remoteMain[t]].tree

\* the run has read its commit identifier
Returned(r) == sha[r] # 0

\* C18: the commit identifier a run has read is that of a commit the same run
\* created, whose index.html is the markup generated for its request.
C18_OwnCommitReported ==
  \A r \in Reqs :
    Returned(r) =>
      /\ commits[req[r].task][sha[r]].by = r
      /\ commits[req[r].task][sha[r]].tree["index.html"] = html[r]

\* both runs of a task have pushed and ended
BothPushed(t) ==
  /\ \A r \in Reqs : req[r].task = t /\ Pushed(r) /\ Ended(r)
  /\ Cardinality(Reqs) >= 2

\* C19: once two concurrent runs of a task have both pushed and ended, the
\* remote's main is the latest commit of the local repository and its
\* index.html is the index.html of the staging directory.
C19_RemoteHasLastWrite ==
  \A t \in Tasks :
    BothPushed(t) =>
      /\ remoteMain[t] = HeadCommit(t)
      /\ RemoteIndex(t) = files[t]["index.html"]

\* two runs that overlapped have both pushed and ended, the first to commit
\* having written index.html last
C19_Witness ==
  \E t \in Tasks : \E r, q \in Reqs :
    /\ BothPushed(t)
    /\ r # q /\ q \notin doneBefore[r] /\ r \notin doneBefore[q]
    /\ html[r] # html[q]
    /\ commits[t][1].by = r /\ commits[t][2].by = q
    /\ files[t]["index.html"] = html[r]
====
